---- MODULE Spec2Model ----
(***************************************************************************)
(* A model of the CHIP-8 interpreter: the Chip8 struct of cpu.rs (pc, i,   *)
(* stack, v, mem), its run loop (would_halt / step / io.update), and the   *)
(* TerminalIo implementation of the Chip8Io trait (screen, keyboard state, *)
(* delay and sound timers).  A panic is a state of its own: ctl =          *)
(* "panicked" and `panic` holds the message.                               *)
(***************************************************************************)
EXTENDS Integers, Sequences, FiniteSets, TLC

VARIABLES
    pc,          \* Chip8.pc : u16
    i,           \* Chip8.i : u16
    stack,       \* Chip8.stack.values : Vec<u16>
    v,           \* Chip8.v.regs : [u8; 16]
    rom,         \* the program image Chip8::new was given
    mem,         \* Chip8.mem.bytes : [u8; 4096], kept as the bytes that differ
                 \* from the image Mem::new(rom) built (see MemAt)
    screen,      \* TerminalIo.screen.rows, as the set of pixels that are true
    pressed,     \* TerminalIo.kb.pressed : [bool; 16]
    dt,          \* TerminalIo.dt
    st,          \* TerminalIo.st
    elapsed,     \* TerminalIo.previous_tick.elapsed() when the clock was last
                 \* read, in nanoseconds
    instr,       \* step's local `instr` (the last word fetched)
    old_pc,      \* step's local `old_pc` (where that word was fetched)
    key_event,   \* get_key's local `e` (the last event its blocking loop read)
    fresh,       \* history: the keys that went from not pressed to pressed
                 \* since the blocking loop of get_key was entered
    ctl,         \* position in Chip8::run
    panic,       \* the panic message, once ctl = "panicked"
    debug_build  \* the build profile: debug assertions and overflow checks on

vars == <<pc, i, stack, v, rom, mem, screen, pressed, dt, st, elapsed,
          instr, old_pc, key_event, fresh, ctl, panic, debug_build>>

(***************************************************************************)
(* Program constants.                                                      *)
(***************************************************************************)
LEN == 4096
ROM_START == 512
CAPACITY == 16
TIME_BETWEEN_TICKS_NS == 1000000000 \div 60
DIMS == [x |-> 64, y |-> 32]

DIGITS ==
    << <<240, 144, 144, 144, 240>>,
       << 32,  96,  32,  32, 112>>,
       <<240,  16, 240, 128, 240>>,
       <<240,  16, 240,  16, 240>>,
       <<144, 144, 240,  16,  16>>,
       <<240, 128, 240,  16, 240>>,
       <<240, 128, 240, 144, 240>>,
       <<240,  16,  32,  64,  64>>,
       <<240, 144, 240, 144, 240>>,
       <<240, 144, 240,  16, 240>>,
       <<240, 144, 240, 144, 144>>,
       <<224, 144, 224, 144, 224>>,
       <<240, 128, 128, 128, 240>>,
       <<224, 144, 144, 144, 224>>,
       <<240, 128, 240, 128, 240>>,
       <<240, 128, 240, 128, 128>> >>

(***************************************************************************)
(* Bounds of the model.                                                    *)
(***************************************************************************)
\* between two readings of the clock one iteration of run takes
\* 0 .. MaxStepHalfTicks half tick intervals of wall-clock time
MaxStepHalfTicks == 2
\* at most MaxPending terminal events are pending when the keyboard is polled
MaxPending == 1
\* the clock is followed up to MaxElapsedHalfTicks half tick intervals past
\* the last accounted tick while the interpreter is blocked on the keyboard
MaxElapsedHalfTicks == 4
\* the number of physical keys, of KeyChars, that the terminal reports
NumKeyChars == 2
\* the programs use the registers V0 .. V[NumRegs - 1] and VF
NumRegs == 2
\* besides 0, 1, 128 and 255 the programs load NumExtraVals more values
NumExtraVals == 0
\* the call / return programs are RomWords instruction words long
RomWords == 3
\* the memory-edge programs point I at the last MemEdge addresses of memory
MemEdge == 3

(***************************************************************************)
(* Fixed-width arithmetic.                                                 *)
(***************************************************************************)
U8 == 0 .. 255
U16MOD == 65536

BitAt(a, j) == (a \div (2 ^ j)) % 2

RECURSIVE Bitwise(_, _, _, _)
Bitwise(tt, a, b, j) ==
    IF j > 7 THEN 0
    ELSE tt[2 * BitAt(a, j) + BitAt(b, j) + 1] * (2 ^ j) + Bitwise(tt, a, b, j + 1)

BitOr(a, b)  == Bitwise(<<0, 1, 1, 1>>, a, b, 0)
BitAnd(a, b) == Bitwise(<<0, 0, 0, 1>>, a, b, 0)
BitXor(a, b) == Bitwise(<<0, 1, 1, 0>>, a, b, 0)

\* u8::wrapping_add
wrapping_add(a, b) == (a + b) % 256

\* u8::overflowing_add : (sum, carry)
overflowing_add(a, b) == [val |-> (a + b) % 256, flag |-> (a + b > 255)]

\* u8::overflowing_sub : (diff, borrow)
overflowing_sub(a, b) == [val |-> (a - b + 256) % 256, flag |-> (a < b)]

\* `b as u8` for a bool
BoolAsU8(b) == IF b THEN 1 ELSE 0

\* `v as i8` for a u8
AsI8(b) == IF b >= 128 THEN b - 256 ELSE b

\* u16::from_be_bytes([j, k])
from_be_bytes(j, k) == j * 256 + k

\* nibbles_from_u16 : [a, b, c, d]
nibbles_from_u16(x) ==
    << (x \div 4096) % 16, (x \div 256) % 16, (x \div 16) % 16, x % 16 >>

\* (variant of bcd_from_u8: the digits are not reversed)
bcd_from_u8_OnesFirst(x) ==
    << x % 10, (x \div 10) % 10, ((x \div 10) \div 10) % 10 >>

\* bcd_from_u8 : digits [ones, tens, hundreds] collected, then reversed
bcd_from_u8(x) ==
    LET digits == << x % 10, (x \div 10) % 10, ((x \div 10) \div 10) % 10 >>
    IN  << digits[3], digits[2], digits[1] >>

(***************************************************************************)
(* Panic messages.                                                         *)
(***************************************************************************)
NoPanic == [kind |-> "none", args |-> <<>>]
\* (variant of Unimplemented: the message reads self.pc, which step has
\* already advanced, instead of old_pc)
Unimplemented_Advanced(word, at) ==
    [kind |-> "unimplemented", args |-> <<word, at + 2>>]

\* panic!("unimplemented: 0x{instr:04x} (pc=0x{old_pc:04x})")
Unimplemented(word, at) == [kind |-> "unimplemented", args |-> <<word, at>>]
\* index out of bounds: the len is {LEN} but the index is {idx}
IndexOutOfBounds(idx) == [kind |-> "index out of bounds", args |-> <<LEN, idx>>]
\* assert_eq!(n, 0): assertion `left == right` failed, left: n, right: 0
AssertEqFailed(left, right) ==
    [kind |-> "assert_eq failed", args |-> <<left, right>>]
AssertFailed(cond) == [kind |-> "assertion failed", args |-> <<cond>>]
StackOverflow == [kind |-> "stack overflow", args |-> <<>>]
\* called `Option::unwrap()` on a `None` value
UnwrapNone == [kind |-> "unwrap on None", args |-> <<>>]
AddOverflow == [kind |-> "attempt to add with overflow", args |-> <<>>]
SliceIndexOrder(from, to) == [kind |-> "slice index order", args |-> <<from, to>>]
ControlC == [kind |-> "control-c pressed", args |-> <<>>]

(***************************************************************************)
(* Mem                                                                     *)
(***************************************************************************)
DigitsRom == [a \in 0 .. 79 |-> DIGITS[(a \div 5) + 1][(a % 5) + 1]]

\* `assert!(rom_start + rom.len() <= Self::LEN as usize)` of Mem::new
RomFits(image) == ROM_START + Len(image) <= LEN

\* (variant of MemNew: the rom is copied one byte too far up)
MemNew_RomShifted(image) ==
    [a \in 0 .. LEN - 1 |->
        IF a < 80 THEN DigitsRom[a]
        ELSE IF a >= ROM_START + 1 /\ a < ROM_START + 1 + Len(image)
        THEN image[a - ROM_START]
        ELSE 0]

\* Mem::new, for a rom that fits
MemNew(image) ==
    [a \in 0 .. LEN - 1 |->
        IF a < 80 THEN DigitsRom[a]
        ELSE IF a >= ROM_START /\ a < ROM_START + Len(image) THEN image[a - ROM_START + 1]
        ELSE 0]

\* <Mem as Index<u16>>::index for an index inside the array: the byte of
\* the array at address a, m being the bytes written since construction
MemAt(m, a) == IF a \in DOMAIN m THEN m[a] ELSE MemNew(rom)[a]

\* <Mem as IndexMut<u16>>::index_mut followed by the store of byte b
MemStore(m, a, b) ==
    IF b = MemNew(rom)[a]
    THEN [c \in DOMAIN m \ {a} |-> m[c]]
    ELSE [c \in DOMAIN m \cup {a} |-> IF c = a THEN b ELSE m[c]]

\* Mem::sprite_offset
sprite_offset(digit) == digit * 5

(***************************************************************************)
(* Stack                                                                   *)
(***************************************************************************)
\* (variant of StackPush: the capacity test is off by one)
StackPush_OffByOne(values, value) ==
    IF Len(values) > CAPACITY
    THEN [ok |-> FALSE, values |-> values, panic |-> StackOverflow]
    ELSE [ok |-> TRUE, values |-> Append(values, value), panic |-> NoPanic]

\* Stack::push : the new values, or the panic
StackPush(values, value) ==
    IF Len(values) >= CAPACITY
    THEN [ok |-> FALSE, values |-> values, panic |-> StackOverflow]
    ELSE [ok |-> TRUE, values |-> Append(values, value), panic |-> NoPanic]

\* (variant of StackPop: the oldest entry is removed instead of the newest)
StackPop_Fifo(values) ==
    IF Len(values) = 0
    THEN [ok |-> FALSE, values |-> values, value |-> 0, panic |-> UnwrapNone]
    ELSE [ok |-> TRUE, values |-> Tail(values), value |-> Head(values), panic |-> NoPanic]

\* (variant of StackPop: an empty stack yields 0 instead of a panic)
StackPop_OrZero(values) ==
    IF Len(values) = 0
    THEN [ok |-> TRUE, values |-> values, value |-> 0, panic |-> NoPanic]
    ELSE [ok |-> TRUE, values |-> SubSeq(values, 1, Len(values) - 1),
          value |-> values[Len(values)], panic |-> NoPanic]

\* Stack::pop : self.values.pop().unwrap()
StackPop(values) ==
    IF Len(values) = 0
    THEN [ok |-> FALSE, values |-> values, value |-> 0, panic |-> UnwrapNone]
    ELSE [ok |-> TRUE, values |-> SubSeq(values, 1, Len(values) - 1),
          value |-> values[Len(values)], panic |-> NoPanic]

(***************************************************************************)
(* Point and Screen                                                        *)
(***************************************************************************)
\* i8::rem_euclid for a positive modulus (TLA+'s % is already euclidean)
rem_euclid(a, m) == a % m

\* (variant of PointWrap: the origin is used as it is)
PointWrap_Forgotten(p) == p

\* Point::wrap
PointWrap(p) == [x |-> rem_euclid(p.x, DIMS.x), y |-> rem_euclid(p.y, DIMS.y)]

\* Point::in_bounds
in_bounds(p) == (0 <= p.x /\ p.x < DIMS.x) /\ (0 <= p.y /\ p.y < DIMS.y)

\* i8 arithmetic: the value an i8 holds after a wrapping operation
I8Wrap(a) == ((a + 128) % 256) - 128

\* <Point as Add>::add : the sum as a release build computes it, and whether
\* both i8 additions are free of overflow (a debug build panics otherwise)
PointAdd(p, q) == [x |-> I8Wrap(p.x + q.x), y |-> I8Wrap(p.y + q.y)]
PointAddFits(p, q) ==
    /\ p.x + q.x \in -128 .. 127
    /\ p.y + q.y \in -128 .. 127

\* (variant of flip: `*pixel |= true`, the pixel is set and never cleared)
flip_SetOnly(rows, p) ==
    [ok |-> in_bounds(p), rows |-> rows \cup {p}, was_high |-> p \in rows]

\* Screen::flip : `assert!(p.in_bounds())`, then the pixel is toggled; the
\* result is its old value
flip(rows, p) ==
    [ok |-> in_bounds(p),
     rows |-> IF p \in rows THEN rows \ {p} ELSE rows \cup {p},
     was_high |-> p \in rows]

\* (variant of DrawRow: a pixel past the right or bottom edge wraps to the
\* opposite edge instead of being dropped)
RECURSIVE DrawRow_WrapPixels(_, _, _, _, _, _)
DrawRow_WrapPixels(rows, collision, top_left, sprite, dy, dx) ==
    IF dx >= 8 THEN [rows |-> rows, collision |-> collision, panic |-> NoPanic]
    ELSE LET d == [x |-> dx, y |-> dy]
             pos == PointWrap(PointAdd(top_left, d))
         IN  IF debug_build /\ ~PointAddFits(top_left, d)
             THEN [rows |-> rows, collision |-> collision, panic |-> AddOverflow]
             ELSE IF ~in_bounds(pos)
             THEN DrawRow_WrapPixels(rows, collision, top_left, sprite, dy, dx + 1)
             ELSE IF BitAt(sprite[dy + 1], 7 - dx) # 0
             THEN LET f == flip(rows, pos)
                  IN  IF ~f.ok
                      THEN [rows |-> rows, collision |-> collision,
                            panic |-> AssertFailed("p.in_bounds()")]
                      ELSE DrawRow_WrapPixels(f.rows, collision \/ f.was_high, top_left,
                           sprite, dy, dx + 1)
             ELSE DrawRow_WrapPixels(rows, collision, top_left, sprite, dy, dx + 1)

\* (variant of DrawRow: the bits of a sprite byte are read from the least
\* significant one)
RECURSIVE DrawRow_LsbFirst(_, _, _, _, _, _)
DrawRow_LsbFirst(rows, collision, top_left, sprite, dy, dx) ==
    IF dx >= 8 THEN [rows |-> rows, collision |-> collision, panic |-> NoPanic]
    ELSE LET d == [x |-> dx, y |-> dy]
             pos == PointAdd(top_left, d)
         IN  IF debug_build /\ ~PointAddFits(top_left, d)
             THEN [rows |-> rows, collision |-> collision, panic |-> AddOverflow]
             ELSE IF ~in_bounds(pos)
             THEN DrawRow_LsbFirst(rows, collision, top_left, sprite, dy, dx + 1)
             ELSE IF BitAt(sprite[dy + 1], dx) # 0
             THEN LET f == flip(rows, pos)
                  IN  IF ~f.ok
                      THEN [rows |-> rows, collision |-> collision,
                            panic |-> AssertFailed("p.in_bounds()")]
                      ELSE DrawRow_LsbFirst(f.rows, collision \/ f.was_high, top_left,
                           sprite, dy, dx + 1)
             ELSE DrawRow_LsbFirst(rows, collision, top_left, sprite, dy, dx + 1)

\* Screen::draw_sprite, the inner loop `for dx in 0..8` of the row dy, from
\* dx on; the loop stops at the first panic
RECURSIVE DrawRow(_, _, _, _, _, _)
DrawRow(rows, collision, top_left, sprite, dy, dx) ==
    IF dx >= 8 THEN [rows |-> rows, collision |-> collision, panic |-> NoPanic]
    ELSE LET d == [x |-> dx, y |-> dy]
             pos == PointAdd(top_left, d)
         IN  IF debug_build /\ ~PointAddFits(top_left, d)
             THEN [rows |-> rows, collision |-> collision, panic |-> AddOverflow]
             ELSE IF ~in_bounds(pos)
             THEN DrawRow(rows, collision, top_left, sprite, dy, dx + 1)
             ELSE IF BitAt(sprite[dy + 1], 7 - dx) # 0
             THEN LET f == flip(rows, pos)
                  IN  IF ~f.ok
                      THEN [rows |-> rows, collision |-> collision,
                            panic |-> AssertFailed("p.in_bounds()")]
                      ELSE DrawRow(f.rows, collision \/ f.was_high, top_left,
                           sprite, dy, dx + 1)
             ELSE DrawRow(rows, collision, top_left, sprite, dy, dx + 1)

\* Screen::draw_sprite, the outer loop `for dy in 0..sprite.len()`, from dy on
RECURSIVE DrawLoop(_, _, _, _, _)
DrawLoop(rows, collision, top_left, sprite, dy) ==
    IF dy >= Len(sprite) THEN [rows |-> rows, collision |-> collision, panic |-> NoPanic]
    ELSE LET r == DrawRow(rows, collision, top_left, sprite, dy, 0)
         IN  IF r.panic.kind # NoPanic.kind THEN r
             ELSE DrawLoop(r.rows, r.collision, top_left, sprite, dy + 1)

ScreenDrawSprite(rows, top_left, sprite) == DrawLoop(rows, FALSE, top_left, sprite, 0)

(***************************************************************************)
(* Keyboard: terminal events, filter_event, KeyboardState                  *)
(***************************************************************************)
None == -1

\* workman_keycode_to_chip8
workman_keycode_to_chip8(c) ==
    CASE c \in {"7", "&"} -> 1
      [] c \in {"8", "*"} -> 2
      [] c \in {"9", "("} -> 3
      [] c \in {"f", "F"} -> 4
      [] c \in {"u", "U"} -> 5
      [] c \in {"p", "P"} -> 6
      [] c \in {"n", "N"} -> 7
      [] c \in {"e", "E"} -> 8
      [] c \in {"o", "O"} -> 9
      [] c \in {"l", "L"} -> 10
      [] c \in {",", "<"} -> 0
      [] c \in {".", ">"} -> 11
      [] c \in {"0", ")"} -> 12
      [] c \in {";", ":"} -> 13
      [] c \in {"i", "I"} -> 14
      [] c \in {"/", "?"} -> 15
      [] OTHER -> None

\* keycode_to_chip8
keycode_to_chip8(c) == workman_keycode_to_chip8(c)

\* (variant of filter_event: only Press counts as pressed, Repeat is
\* reported like Release)
filter_event_RepeatReleases(e) ==
    IF e.type # "Key" THEN [res |-> "None", k |-> 0, pressed |-> FALSE]
    ELSE IF ~e.is_char THEN [res |-> "None", k |-> 0, pressed |-> FALSE]
    ELSE LET is_pressed == e.kind \in {"Press"}
         IN  IF e.code \in {"c", "C"} /\ e.ctrl /\ is_pressed
             THEN [res |-> "panic", k |-> 0, pressed |-> FALSE]
             ELSE IF keycode_to_chip8(e.code) = None
             THEN [res |-> "None", k |-> 0, pressed |-> FALSE]
             ELSE [res |-> "Some", k |-> keycode_to_chip8(e.code), pressed |-> is_pressed]

\* filter_event : Some((k, pressed)), None, or the control-c panic
filter_event(e) ==
    IF e.type # "Key" THEN [res |-> "None", k |-> 0, pressed |-> FALSE]
    ELSE IF ~e.is_char THEN [res |-> "None", k |-> 0, pressed |-> FALSE]
    ELSE LET is_pressed == e.kind \in {"Press", "Repeat"}
         IN  IF e.code \in {"c", "C"} /\ e.ctrl /\ is_pressed
             THEN [res |-> "panic", k |-> 0, pressed |-> FALSE]
             ELSE IF keycode_to_chip8(e.code) = None
             THEN [res |-> "None", k |-> 0, pressed |-> FALSE]
             ELSE [res |-> "Some", k |-> keycode_to_chip8(e.code), pressed |-> is_pressed]

\* KeyboardState::update_state
update_state(kb, e) ==
    LET f == filter_event(e)
    IN  IF f.res = "Some" THEN [kb EXCEPT ![f.k] = f.pressed] ELSE kb

\* KeyboardState::consume_pending_input_events over the pending events evs
RECURSIVE consume_pending_input_events(_, _)
consume_pending_input_events(kb, evs) ==
    IF evs = <<>> THEN [ok |-> TRUE, kb |-> kb]
    ELSE IF filter_event(Head(evs)).res = "panic" THEN [ok |-> FALSE, kb |-> kb]
    ELSE consume_pending_input_events(update_state(kb, Head(evs)), Tail(evs))

\* no event read yet
NoEvent == [type |-> "None", is_char |-> FALSE, code |-> "", ctrl |-> FALSE, kind |-> ""]

\* The terminal events the model draws from.
KeyChars == <<",", "7", "/", "8", "9", "f">>
KeyEvent(c, ctrl, kind) ==
    [type |-> "Key", is_char |-> TRUE, code |-> c, ctrl |-> ctrl, kind |-> kind]
Events ==
    {KeyEvent(KeyChars[j], FALSE, kind) :
        j \in 1 .. NumKeyChars, kind \in {"Press", "Repeat", "Release"}}
    \cup {KeyEvent("c", TRUE, "Press"), KeyEvent("x", FALSE, "Release"),
          [type |-> "Key", is_char |-> FALSE, code |-> "Enter", ctrl |-> FALSE, kind |-> "Press"],
          [type |-> "Resize", is_char |-> FALSE, code |-> "", ctrl |-> FALSE, kind |-> ""]}

RECURSIVE SeqsUpTo(_, _)
SeqsUpTo(S, n) ==
    IF n = 0 THEN {<<>>}
    ELSE SeqsUpTo(S, n - 1) \cup {Append(q, e) : q \in SeqsUpTo(S, n - 1), e \in S}

PendingEvents == SeqsUpTo(Events, MaxPending)

HalfTick == TIME_BETWEEN_TICKS_NS \div 2
Durations == {h * HalfTick : h \in 0 .. MaxStepHalfTicks}

(***************************************************************************)
(* Chip8::step.  A step works on the record Cpu and returns the record     *)
(* after the instruction; Fail marks the point where the step panicked     *)
(* (what was written before the panic stays written).                      *)
(***************************************************************************)
Cpu ==
    [pc |-> pc, i |-> i, stack |-> stack, v |-> v, mem |-> mem,
     screen |-> screen, pressed |-> pressed, dt |-> dt, st |-> st,
     elapsed |-> elapsed, ctl |-> "update", panic |-> NoPanic]

Fail(s, p) == [s EXCEPT !.ctl = "panicked", !.panic = p]

\* u16 `a + b`: overflow panics in a debug build and wraps in a release build
U16Add(a, b) ==
    IF a + b < U16MOD THEN [ok |-> TRUE, val |-> a + b]
    ELSE IF debug_build THEN [ok |-> FALSE, val |-> 0]
    ELSE [ok |-> TRUE, val |-> (a + b) % U16MOD]

\* <Mem as Index<u16>>::index : is the access inside the array
MemInRange(index) == index < LEN

\* 00ee
ExecReturn(s) ==
    LET r == StackPop(s.stack)
    IN  IF r.ok THEN [s EXCEPT !.pc = r.value, !.stack = r.values]
        ELSE Fail(s, r.panic)

\* 2nnn
ExecCall(s, addr) ==
    LET r == StackPush(s.stack, s.pc)
    IN  IF r.ok THEN [s EXCEPT !.stack = r.values, !.pc = addr]
        ELSE Fail(s, r.panic)

\* (variant of ExecJump: the target is taken relative to the advanced PC)
ExecJump_Relative(s, addr) == [s EXCEPT !.pc = (s.pc + addr) % U16MOD]

\* (variant of ExecJump: the row of 2nnn is taken for 1nnn)
ExecJump_Pushes(s, addr) == [s EXCEPT !.stack = Append(s.stack, s.pc), !.pc = addr]

\* 1nnn
ExecJump(s, addr) == [s EXCEPT !.pc = addr]

\* (variant of ExecSkip: 4 is added to the PC that step already advanced)
ExecSkip_AddsFour(s, cond) == IF cond THEN [s EXCEPT !.pc = s.pc + 4] ELSE s

\* `if cond { self.pc += 2 }`
ExecSkip(s, cond) == IF cond THEN [s EXCEPT !.pc = s.pc + 2] ELSE s

\* the result and the flag of the 8xyn instructions that write V[0xF]
\* (variant of Alu4: the carry is set when the sum is above 256)
Alu4_CarryAbove256(vx, vy) ==
    [val |-> (vx + vy) % 256, flag |-> BoolAsU8(vx + vy > 256)]

\* (variant of Alu4: the row of 8xy5 is taken for 8xy4)
Alu4_Subtracts(vx, vy) ==
    LET r == overflowing_sub(vx, vy) IN [val |-> r.val, flag |-> BoolAsU8(~r.flag)]

Alu4(vx, vy) ==
    LET r == overflowing_add(vx, vy) IN [val |-> r.val, flag |-> BoolAsU8(r.flag)]

\* (variant of Alu5: equal operands count as a borrow)
Alu5_StrictlyGreater(vx, vy) ==
    [val |-> (vx - vy + 256) % 256, flag |-> BoolAsU8(vx > vy)]

Alu5(vx, vy) ==
    LET r == overflowing_sub(vx, vy) IN [val |-> r.val, flag |-> BoolAsU8(~r.flag)]

\* (variant of Alu6: V[x] is shifted in place)
Alu6_FromVx(vx, vy) == [val |-> vx \div 2, flag |-> vx % 2]

Alu6(vx, vy) == [val |-> vy \div 2, flag |-> vy % 2]
Alu7(vx, vy) ==
    LET r == overflowing_sub(vy, vx) IN [val |-> r.val, flag |-> BoolAsU8(~r.flag)]
AluE(vx, vy) ==
    [val |-> (vy * 2) % 256, flag |-> IF BitAnd(vy, 128) # 0 THEN 1 ELSE 0]

\* (variant of WriteFlagged: the flag is written first, the result last)
WriteFlagged_FlagFirst(s, x, r) ==
    [s EXCEPT !.v = [[s.v EXCEPT ![15] = r.flag] EXCEPT ![x] = r.val]]

\* `self.v[x] = val; self.v[0xf] = flag;` in this order
WriteFlagged(s, x, r) ==
    [s EXCEPT !.v = [[s.v EXCEPT ![x] = r.val] EXCEPT ![15] = r.flag]]

\* (variant of Exec8: 8xy1, 8xy2 and 8xy3 leave V[0xF] alone)
Exec8_KeepFlag(s, x, y, n, err) ==
    CASE n = 0 -> [s EXCEPT !.v[x] = s.v[y]]
      [] n = 1 -> [s EXCEPT !.v[x] = BitOr(s.v[x], s.v[y])]
      [] n = 2 -> [s EXCEPT !.v[x] = BitAnd(s.v[x], s.v[y])]
      [] n = 3 -> [s EXCEPT !.v[x] = BitXor(s.v[x], s.v[y])]
      [] n = 4 -> WriteFlagged(s, x, Alu4(s.v[x], s.v[y]))
      [] n = 5 -> WriteFlagged(s, x, Alu5(s.v[x], s.v[y]))
      [] n = 6 -> WriteFlagged(s, x, Alu6(s.v[x], s.v[y]))
      [] n = 7 -> WriteFlagged(s, x, Alu7(s.v[x], s.v[y]))
      [] n = 14 -> WriteFlagged(s, x, AluE(s.v[x], s.v[y]))
      [] OTHER -> Fail(s, err)

\* 8xyn
Exec8(s, x, y, n, err) ==
    CASE n = 0 -> [s EXCEPT !.v[x] = s.v[y]]
      [] n = 1 -> WriteFlagged(s, x, [val |-> BitOr(s.v[x], s.v[y]), flag |-> 0])
      [] n = 2 -> WriteFlagged(s, x, [val |-> BitAnd(s.v[x], s.v[y]), flag |-> 0])
      [] n = 3 -> WriteFlagged(s, x, [val |-> BitXor(s.v[x], s.v[y]), flag |-> 0])
      [] n = 4 -> WriteFlagged(s, x, Alu4(s.v[x], s.v[y]))
      [] n = 5 -> WriteFlagged(s, x, Alu5(s.v[x], s.v[y]))
      [] n = 6 -> WriteFlagged(s, x, Alu6(s.v[x], s.v[y]))
      [] n = 7 -> WriteFlagged(s, x, Alu7(s.v[x], s.v[y]))
      [] n = 14 -> WriteFlagged(s, x, AluE(s.v[x], s.v[y]))
      [] OTHER -> Fail(s, err)

\* <Mem as Index<Range<u16>>>::index : a slice of the array, which has to
\* lie inside it
MemRangeOk(from, to) == from <= to /\ to <= LEN
MemRange(m, from, to) == [j \in 1 .. (to - from) |-> MemAt(m, from + j - 1)]

\* (variant of IoDrawSprite: a collision sets V[0xF], no collision leaves it)
IoDrawSprite_StickyFlag(s, pos, sprite) ==
    LET r == ScreenDrawSprite(s.screen, pos, sprite)
        woken == IF s.elapsed < TIME_BETWEEN_TICKS_NS
                 THEN TIME_BETWEEN_TICKS_NS ELSE s.elapsed
    IN  IF r.panic.kind # NoPanic.kind THEN Fail([s EXCEPT !.screen = r.rows], r.panic)
        ELSE [s EXCEPT !.screen = r.rows, !.elapsed = woken,
                       !.v[15] = IF r.collision THEN 1 ELSE s.v[15]]

\* (variant of IoDrawSprite: no sleep after the drawing)
IoDrawSprite_NoSleep(s, pos, sprite) ==
    LET r == ScreenDrawSprite(s.screen, pos, sprite)
    IN  IF r.panic.kind # NoPanic.kind THEN Fail([s EXCEPT !.screen = r.rows], r.panic)
        ELSE [s EXCEPT !.screen = r.rows, !.v[15] = BoolAsU8(r.collision)]

\* TerminalIo::draw_sprite : draw, render, then sleep until the next tick
IoDrawSprite(s, pos, sprite) ==
    LET r == ScreenDrawSprite(s.screen, pos, sprite)
        woken == IF s.elapsed < TIME_BETWEEN_TICKS_NS
                 THEN TIME_BETWEEN_TICKS_NS ELSE s.elapsed
    IN  IF r.panic.kind # NoPanic.kind THEN Fail([s EXCEPT !.screen = r.rows], r.panic)
        ELSE [s EXCEPT !.screen = r.rows, !.elapsed = woken,
                       !.v[15] = BoolAsU8(r.collision)]

\* (variant of DrawSprite: the assertion reads `<` for `<=`)
DrawSprite_StrictBound(s, x, y, n) ==
    LET end == U16Add(s.i, n)
    IN  IF ~end.ok THEN Fail(s, AddOverflow)
        ELSE IF ~(end.val < LEN)
        THEN Fail(s, AssertFailed("self.i + n as u16 <= Mem::LEN"))
        ELSE IF ~MemRangeOk(s.i, end.val) THEN Fail(s, SliceIndexOrder(s.i, end.val))
        ELSE LET xy == PointWrap([x |-> AsI8(s.v[x]), y |-> AsI8(s.v[y])])
             IN  IoDrawSprite(s, xy, MemRange(s.mem, s.i, end.val))

\* Chip8::draw_sprite
DrawSprite(s, x, y, n) ==
    LET end == U16Add(s.i, n)
    IN  IF ~end.ok THEN Fail(s, AddOverflow)
        ELSE IF ~(end.val <= LEN)
        THEN Fail(s, AssertFailed("self.i + n as u16 <= Mem::LEN"))
        ELSE IF ~MemRangeOk(s.i, end.val) THEN Fail(s, SliceIndexOrder(s.i, end.val))
        ELSE LET xy == PointWrap([x |-> AsI8(s.v[x]), y |-> AsI8(s.v[y])])
             IN  IoDrawSprite(s, xy, MemRange(s.mem, s.i, end.val))

\* KeyboardState::is_key_pressed, with the events evs pending
IsKeyPressed(s, key, evs) ==
    IF ~(key <= 15) THEN [ok |-> FALSE, s |-> Fail(s, AssertFailed("x <= 0x0f"))]
    ELSE LET c == consume_pending_input_events(s.pressed, evs)
         IN  IF ~c.ok THEN [ok |-> FALSE, s |-> Fail(s, ControlC)]
             ELSE [ok |-> TRUE, s |-> [s EXCEPT !.pressed = c.kb]]

\* ex9e (want = TRUE) and exa1 (want = FALSE)
ExecKeySkip(s, x, want, evs) ==
    LET r == IsKeyPressed(s, s.v[x], evs)
    IN  IF ~r.ok THEN r.s
        ELSE ExecSkip(r.s, r.s.pressed[s.v[x]] = want)

\* fx0a up to the blocking read: KeyboardState::get_key catches up on the
\* pending events, then blocks in event::read()
ExecGetKey(s, evs) ==
    LET c == consume_pending_input_events(s.pressed, evs)
    IN  IF ~c.ok THEN Fail(s, ControlC)
        ELSE [s EXCEPT !.pressed = c.kb, !.ctl = "get_key"]

\* (variant of MemWriteLoop: the address wraps around the end of memory)
RECURSIVE MemWriteLoop_Wrapping(_, _, _)
MemWriteLoop_Wrapping(s, vals, j) ==
    IF j > Len(vals) THEN s
    ELSE LET a == U16Add(s.i, j - 1)
         IN  IF ~a.ok THEN Fail(s, AddOverflow)
             ELSE MemWriteLoop_Wrapping(
                      [s EXCEPT !.mem = MemStore(s.mem, a.val % LEN, vals[j])], vals, j + 1)

\* `for j { self.mem[self.i + j] = vals[j] }`, from the j-th value on
RECURSIVE MemWriteLoop(_, _, _)
MemWriteLoop(s, vals, j) ==
    IF j > Len(vals) THEN s
    ELSE LET a == U16Add(s.i, j - 1)
         IN  IF ~a.ok THEN Fail(s, AddOverflow)
             ELSE IF ~MemInRange(a.val) THEN Fail(s, IndexOutOfBounds(a.val))
             ELSE MemWriteLoop([s EXCEPT !.mem = MemStore(s.mem, a.val, vals[j])], vals, j + 1)

\* (variant of RegLoadLoop: `0..x` for `0..=x`)
RECURSIVE RegLoadLoop_Exclusive(_, _, _)
RegLoadLoop_Exclusive(s, x, reg) ==
    IF reg >= x THEN s
    ELSE LET a == U16Add(s.i, reg)
         IN  IF ~a.ok THEN Fail(s, AddOverflow)
             ELSE IF ~MemInRange(a.val) THEN Fail(s, IndexOutOfBounds(a.val))
             ELSE RegLoadLoop_Exclusive([s EXCEPT !.v[reg] = MemAt(s.mem, a.val)], x, reg + 1)

\* `for reg in 0..=x { self.v[reg] = self.mem[self.i + reg] }`, from reg on
RECURSIVE RegLoadLoop(_, _, _)
RegLoadLoop(s, x, reg) ==
    IF reg > x THEN s
    ELSE LET a == U16Add(s.i, reg)
         IN  IF ~a.ok THEN Fail(s, AddOverflow)
             ELSE IF ~MemInRange(a.val) THEN Fail(s, IndexOutOfBounds(a.val))
             ELSE RegLoadLoop([s EXCEPT !.v[reg] = MemAt(s.mem, a.val)], x, reg + 1)

\* (variant of AdvanceI: I is left where it was)
AdvanceI_Unchanged(s, delta) == s

\* `self.i += delta`, when the instruction got that far
AdvanceI(s, delta) ==
    IF s.ctl = "panicked" THEN s
    ELSE LET a == U16Add(s.i, delta)
         IN  IF a.ok THEN [s EXCEPT !.i = a.val] ELSE Fail(s, AddOverflow)

\* fxkk
ExecF(s, x, k, evs, err) ==
    CASE k = 7 -> [s EXCEPT !.v[x] = s.dt]
      [] k = 10 -> ExecGetKey(s, evs)
      [] k = 21 -> [s EXCEPT !.dt = s.v[x]]
      [] k = 24 -> [s EXCEPT !.st = s.v[x]]
      [] k = 30 -> AdvanceI(s, s.v[x])
      [] k = 41 -> [s EXCEPT !.i = sprite_offset(s.v[x])]
      [] k = 51 -> MemWriteLoop(s, bcd_from_u8(s.v[x]), 1)
      [] k = 85 -> AdvanceI(MemWriteLoop(s, [j \in 1 .. x + 1 |-> s.v[j - 1]], 1), x + 1)
      [] k = 101 -> AdvanceI(RegLoadLoop(s, x, 0), x + 1)
      [] OTHER -> Fail(s, err)

\* the `match op` of step, on the state s whose pc is already advanced
Exec(s, word, k, rnd, evs, err) ==
    LET nib == nibbles_from_u16(word)
        op == nib[1]
        x == nib[2]
        y == nib[3]
        n == nib[4]
        addr == word % 4096
    IN  CASE op = 0 ->
               IF word = 224 THEN [s EXCEPT !.screen = {}]
               ELSE IF word = 238 THEN ExecReturn(s)
               ELSE Fail(s, err)
          [] op = 1 -> ExecJump(s, addr)
          [] op = 2 -> ExecCall(s, addr)
          [] op = 3 -> ExecSkip(s, s.v[x] = k)
          [] op = 4 -> ExecSkip(s, s.v[x] # k)
          [] op = 5 -> IF n # 0 THEN Fail(s, AssertEqFailed(n, 0))
                       ELSE ExecSkip(s, s.v[x] = s.v[y])
          [] op = 6 -> [s EXCEPT !.v[x] = k]
          [] op = 7 -> [s EXCEPT !.v[x] = wrapping_add(s.v[x], k)]
          [] op = 8 -> Exec8(s, x, y, n, err)
          [] op = 9 -> IF n # 0 THEN Fail(s, AssertEqFailed(n, 0))
                       ELSE ExecSkip(s, s.v[x] # s.v[y])
          [] op = 10 -> [s EXCEPT !.i = addr]
          [] op = 11 -> [s EXCEPT !.pc = addr + s.v[0]]
          [] op = 12 -> [s EXCEPT !.v[x] = BitAnd(rnd, k)]
          [] op = 13 -> DrawSprite(s, x, y, n)
          [] op = 14 ->
               IF k = 158 THEN ExecKeySkip(s, x, TRUE, evs)
               ELSE IF k = 161 THEN ExecKeySkip(s, x, FALSE, evs)
               ELSE Fail(s, err)
          [] op = 15 -> ExecF(s, x, k, evs, err)

\* The inputs a word consumes: the random byte of cxkk, the pending terminal
\* events of ex9e / exa1 / fx0a.
RandomBytes(word) == IF word \div 4096 = 12 THEN U8 ELSE {0}
PendingFor(word) ==
    IF \/ (word \div 4096 = 14 /\ word % 256 \in {158, 161})
       \/ (word \div 4096 = 15 /\ word % 256 = 10)
    THEN PendingEvents ELSE {<<>>}

\* step, from the fetch on: the state after the instruction together with
\* the locals instr and old_pc
StepFrom(s, rnd, evs) ==
    IF debug_build /\ ~(s.pc < LEN)
    THEN [s |-> Fail(s, AssertFailed("self.pc < Mem::LEN")), instr |-> instr, old_pc |-> old_pc]
    ELSE IF ~MemInRange(s.pc)
    THEN [s |-> Fail(s, IndexOutOfBounds(s.pc)), instr |-> instr, old_pc |-> old_pc]
    ELSE IF ~MemInRange(s.pc + 1)
    THEN [s |-> Fail(s, IndexOutOfBounds(s.pc + 1)), instr |-> instr, old_pc |-> old_pc]
    ELSE LET j == MemAt(s.mem, s.pc)
             k == MemAt(s.mem, s.pc + 1)
             word == from_be_bytes(j, k)
             err == Unimplemented(word, s.pc)
         IN  [s |-> Exec([s EXCEPT !.pc = s.pc + 2], word, k, rnd, evs, err),
              instr |-> word, old_pc |-> s.pc]

(***************************************************************************)
(* Chip8::run and TerminalIo::update                                       *)
(***************************************************************************)
\* `0x1000 | self.pc`
HaltWord(p) == IF BitAt(p, 12) = 1 THEN p ELSE p + 4096

\* (variant of would_halt: every 1nnn word halts, whatever its target)
would_halt_AnyJump ==
    IF ~MemInRange(pc) THEN [res |-> "panic", panic |-> IndexOutOfBounds(pc)]
    ELSE IF ~MemInRange(pc + 1) THEN [res |-> "panic", panic |-> IndexOutOfBounds(pc + 1)]
    ELSE IF from_be_bytes(MemAt(mem, pc), MemAt(mem, pc + 1)) \div 4096 = 1
    THEN [res |-> "halt", panic |-> NoPanic]
    ELSE [res |-> "continue", panic |-> NoPanic]

\* Chip8::would_halt : "panic" when a fetch index is outside memory
would_halt ==
    IF ~MemInRange(pc) THEN [res |-> "panic", panic |-> IndexOutOfBounds(pc)]
    ELSE IF ~MemInRange(pc + 1) THEN [res |-> "panic", panic |-> IndexOutOfBounds(pc + 1)]
    ELSE IF from_be_bytes(MemAt(mem, pc), MemAt(mem, pc + 1)) = HaltWord(pc)
    THEN [res |-> "halt", panic |-> NoPanic]
    ELSE [res |-> "continue", panic |-> NoPanic]

\* (variant of saturating_sub: u8::wrapping_sub)
saturating_sub_Wrapping(a, b) == (a - b + 256) % 256

\* u8::saturating_sub
saturating_sub(a, b) == IF a - b < 0 THEN 0 ELSE a - b

\* the `while` loop of TerminalIo::update
RECURSIVE UpdateLoop(_)
UpdateLoop(t) ==
    IF t.elapsed >= TIME_BETWEEN_TICKS_NS
    THEN UpdateLoop([dt |-> saturating_sub(t.dt, 1), st |-> saturating_sub(t.st, 1),
                     elapsed |-> t.elapsed - TIME_BETWEEN_TICKS_NS])
    ELSE t

\* (variant of RunCheck: the loop body calls update before step)
RunCheck_UpdateFirst ==
    /\ ctl = "loop"
    /\ ctl' = CASE would_halt.res = "panic" -> "panicked"
                [] would_halt.res = "halt" -> "halted"
                [] OTHER -> "update"
    /\ panic' = would_halt.panic
    /\ UNCHANGED <<pc, i, stack, v, rom, mem, screen, pressed, dt, st, elapsed,
                   instr, old_pc, key_event, fresh, debug_build>>

\* The top of the loop of run: `if self.would_halt() { break; }`
RunCheck ==
    /\ ctl = "loop"
    /\ ctl' = CASE would_halt.res = "panic" -> "panicked"
                [] would_halt.res = "halt" -> "halted"
                [] OTHER -> "step"
    /\ panic' = would_halt.panic
    /\ UNCHANGED <<pc, i, stack, v, rom, mem, screen, pressed, dt, st, elapsed,
                   instr, old_pc, key_event, fresh, debug_build>>

\* The word step is about to fetch (0 when the fetch would panic).
NextWord ==
    IF MemInRange(pc) /\ MemInRange(pc + 1)
    THEN from_be_bytes(MemAt(mem, pc), MemAt(mem, pc + 1)) ELSE 0

\* `self.step()`
Step ==
    /\ ctl = "step"
    /\ \E rnd \in RandomBytes(NextWord), evs \in PendingFor(NextWord) :
          LET r == StepFrom(Cpu, rnd, evs)
          IN  /\ pc' = r.s.pc
              /\ i' = r.s.i
              /\ stack' = r.s.stack
              /\ v' = r.s.v
              /\ mem' = r.s.mem
              /\ screen' = r.s.screen
              /\ pressed' = r.s.pressed
              /\ dt' = r.s.dt
              /\ st' = r.s.st
              /\ elapsed' = r.s.elapsed
              /\ ctl' = r.s.ctl
              /\ panic' = r.s.panic
              /\ instr' = r.instr
              /\ old_pc' = r.old_pc
    /\ fresh' = {}
    /\ UNCHANGED <<rom, key_event, debug_build>>

\* One turn of the blocking loop of KeyboardState::get_key, inside fx0a:
\* event::read() returns the event e after d more nanoseconds.
GetKeyRead ==
    /\ ctl = "get_key"
    /\ \E e \in Events, d \in Durations :
          /\ elapsed + d <= MaxElapsedHalfTicks * HalfTick
          /\ elapsed' = elapsed + d
          /\ key_event' = e
          /\ LET f == filter_event(e)
                 x == nibbles_from_u16(instr)[2]
             IN  /\ pressed' = IF f.res = "panic" THEN pressed ELSE update_state(pressed, e)
                 /\ ctl' = CASE f.res = "panic" -> "panicked"
                              [] f.res = "Some" /\ ~f.pressed -> "update"
                              [] OTHER -> "get_key"
                 /\ panic' = IF f.res = "panic" THEN ControlC ELSE NoPanic
                 /\ v' = IF f.res = "Some" /\ ~f.pressed THEN [v EXCEPT ![x] = f.k] ELSE v
          /\ fresh' = fresh \cup {key \in 0 .. 15 : ~pressed[key] /\ pressed'[key]}
    /\ UNCHANGED <<pc, i, stack, rom, mem, screen, dt, st, instr, old_pc, debug_build>>

\* `self.io.update()`; `Instant::now()` reads the clock d nanoseconds after
\* the time already accounted for in elapsed
Update ==
    /\ ctl = "update"
    /\ \E d \in Durations :
          LET t == UpdateLoop([dt |-> dt, st |-> st, elapsed |-> elapsed + d])
          IN  dt' = t.dt /\ st' = t.st /\ elapsed' = t.elapsed
    /\ ctl' = "loop"
    /\ UNCHANGED <<pc, i, stack, v, rom, mem, screen, pressed, instr, old_pc, panic,
                   key_event, fresh, debug_build>>

(***************************************************************************)
(* The programs the interpreter is constructed from.                       *)
(***************************************************************************)
\* the bytes of a sequence of instruction words, big endian
RomOf(words) ==
    [j \in 1 .. 2 * Len(words) |->
        IF j % 2 = 1 THEN words[(j + 1) \div 2] \div 256 ELSE words[j \div 2] % 256]

Word(op, x, y, n) == op * 4096 + x * 256 + y * 16 + n

ScenarioA == <<24586, 24843, 32788>>                 \* 600A 610B 8014
ScenarioB == <<41472, 53253>>                        \* A200 D005
ScenarioB0 == <<40960, 53253>>                       \* A000 D005
ScenarioC == <<8708, 4610, 238>>                     \* 2204 1202 00EE
ScenarioD == [j \in 1 .. 17 |-> 8192 + ROM_START + 2 * j]  \* 17 calls in a row

SampleRegs == (0 .. NumRegs - 1) \cup {15}
SampleVals == {0, 1, 128, 255} \cup {(127 * j) % 256 : j \in 1 .. NumExtraVals}

\* 6xaa 6ybb 8xyn : load two registers, then one arithmetic instruction
AluPrograms ==
    {<<Word(6, x, 0, 0) + a, Word(6, y, 0, 0) + b, Word(8, x, y, n)>> :
        x \in SampleRegs, y \in SampleRegs, a \in SampleVals, b \in SampleVals,
        n \in (0 .. 7) \cup {14}}

\* programs of RomWords words, each a return or a call into the program
CallTargets == {ROM_START + 2 * j : j \in 0 .. RomWords - 1}
CallRetWords == {238} \cup {8192 + t : t \in CallTargets}
CallRetPrograms == [1 .. RomWords -> CallRetWords]

\* one-word programs: every low byte for 00kk, Exkk and Fxkk, every low
\* nibble for 5xyn, 8xyn and 9xyn, and a few words of the other families;
\* and 60FF followed by a word that has no row (0EE0 5011 8018 801F 901F
\* E000 F0FF)
DecodeWords ==
    (0 .. 255) \cup {256, 480, 494, 3808, 3822, 4095}
    \cup {Word(op, x, y, n) : op \in {5, 8, 9}, x \in SampleRegs, y \in SampleRegs, n \in 0 .. 15}
    \cup {Word(op, x, 0, 0) + kk : op \in {14, 15}, x \in SampleRegs, kk \in 0 .. 255}
    \cup {4608, 4610, 8708, 12288, 12289, 16384, 16385, 24831, 28927,
          41231, 45568, 49407, 49152, 53249}
DecodePrograms ==
    {<<w>> : w \in DecodeWords}
    \cup {<<24831, w>> : w \in {3808, 20497, 32792, 32799, 36895, 57344, 61695}}

\* programs that take PC or I to the end of memory and beyond
EdgeAddrs == (LEN - MemEdge) .. (LEN - 1)
MemoryOps ==
    {61491} \cup {Word(15, x, 5, 5) : x \in SampleRegs} \cup {Word(15, x, 6, 5) : x \in SampleRegs}
    \cup {Word(13, 0, 0, n) : n \in {0, 1, 2, 3, 15}}
MemoryPrograms ==
    {<<4096 + a>> : a \in EdgeAddrs}
    \cup {<<24576 + b, 45056 + a>> : a \in EdgeAddrs, b \in {0, 1, 2, 255}}
    \cup {<<40960 + a, w>> : a \in EdgeAddrs, w \in MemoryOps}
    \cup {<<24576 + b, 40960 + a, 61470, w>> : a \in EdgeAddrs, b \in {1, 255}, w \in MemoryOps}

\* AFFF 60FF (F01E x 240) 60F0 F01E : I = 0xFFFF, then one more instruction
IndexLimitPrograms ==
    {<<45055, 24831>> \o [j \in 1 .. 240 |-> 61470] \o <<24816, 61470, w>> :
        w \in {61491, 61525, 61541, 53249, 53250}}
    \cup {<<45055, 24831>> \o [j \in 1 .. 240 |-> 61470] \o <<24816, 61470, 24577, 61470, 53249>>}

\* 60aa 61bb 62cc A210 D01n D21n D21n 120E data : a sprite of the two data
\* bytes at 0x210 drawn at (V0, V1), then twice at (V2, V1); 120E at 0x20E
\* halts
DrawXs == {0, 60, 63, 252}
DrawYs == {0, 31}
DrawData == {0, 65409}                               \* 0000, FF81
DrawPrograms ==
    {<<24576 + a, 24832 + b, 25088 + c, 41488, Word(13, 0, 1, n), Word(13, 2, 1, n),
       Word(13, 2, 1, n), 4622, w>> :
        a \in DrawXs, b \in DrawYs, c \in DrawXs, n \in {1, 2}, w \in DrawData}

\* 60FF AFFF F055 Aaaa D11n : the last byte of memory is set to FF, then a
\* sprite of n bytes at an address near the end of memory is drawn at (0, 0)
EdgeDrawPrograms ==
    {<<24831, 45055, 61525, 40960 + a, Word(13, 1, 1, n)>> :
        a \in EdgeAddrs, n \in 0 .. 3}

\* 2204 1202 w 00EE 00EE : a call to 0x204, where one instruction of every
\* family runs with the return address on the stack (1206 3000 4000 5010
\* 9010 6005 7001 8014 A300 B206 C001 D001 E09E E0A1 F007 F00A F015 F018
\* F01E F029 F033 F055 F065 00E0, and 0000 5011 8018 E000 F0FF, which do
\* not decode), then the return to the self-jump at 0x202
FrameWords ==
    {4614, 12288, 16384, 20496, 36880, 24581, 28673, 32788, 41728, 45574,
     49153, 53249, 57502, 57505, 61447, 61450, 61461, 61464, 61470, 61481,
     61491, 61525, 61541, 224, 0, 20497, 32792, 57344, 61695}
FramePrograms == {<<8708, 4610, w, 238, 238>> : w \in FrameWords}

\* 6011 6122 6F33 A300 Fx55 60AA 61BB A300 Fy65 : three registers are set,
\* V0 .. Vx are stored at 0x300, V0 and V1 are overwritten, and V0 .. Vy are
\* loaded back from 0x300
RegMemPrograms ==
    {<<24593, 24866, 28467, 41728, Word(15, x, 5, 5), 24746, 25019, 41728,
       Word(15, y, 6, 5)>> : x \in {0, 1, 15}, y \in {0, 1, 15}}

\* 60bb A300 F033 : the decimal digits of every byte bb, stored at 0x300
BcdPrograms == {<<24576 + b, 41728, 61491>> : b \in U8}

\* 60aa 61bb w : two registers are set, then one skip compares them with
\* each other or with a byte (3001 30FF 4001 40FF 5010 9010); and 60aa w :
\* V0 names a key, or no key, then E09E or E0A1
SkipPrograms ==
    {<<24576 + a, 24832 + b, w>> :
        a \in {0, 1, 255}, b \in {0, 1, 255},
        w \in {12289, 12543, 16385, 16639, 20496, 36880}}
    \cup {<<24576 + a, w>> : a \in {0, 1, 15, 16, 255}, w \in {57502, 57505}}

\* 60aa 61bb F015 F118 D001 F207 : both timers are set, one row of the '0'
\* sprite is drawn, then the delay timer is read
TimerDrawPrograms ==
    {<<24576 + a, 24832 + b, 61461, 61720, 53249, 61959>> :
        a \in {0, 1, 3, 255}, b \in {0, 2}}

\* 60aa D00F : the 15 bytes at 0x000 (the sprites '0', '1', '2') drawn with
\* the origin registers both holding aa, for every byte aa
DrawAllPrograms == {<<24576 + a, 53263>> : a \in U8}

\* 60aa 61bb F118 F015 F20A F307 : both timers are set, the interpreter
\* blocks on the keyboard, then the delay timer is read
TimerPrograms ==
    {<<24576 + ab[1], 24832 + ab[2], 61720, 61461, 61962, 62215>> :
        ab \in {<<0, 2>>, <<1, 0>>, <<3, 2>>}}

Programs ==
    {ScenarioA, ScenarioB, ScenarioB0, ScenarioC, ScenarioD}
    \cup AluPrograms \cup CallRetPrograms \cup DecodePrograms
    \cup MemoryPrograms \cup IndexLimitPrograms \cup DrawPrograms
    \cup EdgeDrawPrograms \cup TimerPrograms \cup FramePrograms
    \cup RegMemPrograms \cup BcdPrograms \cup SkipPrograms
    \cup TimerDrawPrograms \cup DrawAllPrograms

\* the empty program, a program of 4096 - 0x200 bytes (1200, which halts,
\* .. FF) and a program one byte longer
FullRom ==
    [j \in 1 .. LEN - ROM_START |->
        IF j = 1 THEN 18 ELSE IF j = LEN - ROM_START THEN 255 ELSE 0]
BoundaryRoms == {<<>>, FullRom, Append(FullRom, 0)}

Roms == {RomOf(ws) : ws \in Programs} \cup BoundaryRoms

\* Chip8::new and TerminalIo::setup; Mem::new panics on a rom that does not
\* fit, and no Chip8 exists then.  The build profile decides what a u16
\* overflow does and nothing else: the programs that take I to 0xFFFF run
\* as a debug and as a release build, the other programs as a debug build.
Init ==
    /\ rom \in Roms
    /\ debug_build \in (IF rom \in {RomOf(ws) : ws \in IndexLimitPrograms}
                        THEN BOOLEAN ELSE {TRUE})
    /\ mem = [a \in {} |-> 0]
    /\ pc = ROM_START
    /\ i = 0
    /\ stack = <<>>
    /\ v = [r \in 0 .. 15 |-> 0]
    /\ screen = {}
    /\ pressed = [key \in 0 .. 15 |-> FALSE]
    /\ dt = 0
    /\ st = 0
    /\ elapsed = 0
    /\ instr = 0
    /\ old_pc = 0
    /\ key_event = NoEvent
    /\ fresh = {}
    /\ ctl = IF RomFits(rom) THEN "loop" ELSE "panicked"
    /\ panic = IF RomFits(rom) THEN NoPanic
               ELSE AssertFailed("rom_start + rom.len() <= Self::LEN as usize")

Next == RunCheck \/ Step \/ GetKeyRead \/ Update

Spec == Init /\ [][Next]_vars

(***************************************************************************)
(* Vocabulary of the properties: the word a step is about to execute and   *)
(* its fields, read in the state before the step.                          *)
(***************************************************************************)
\* this transition is one call of step
StepTaken == ctl = "step" /\ ctl' # "step"
\* ... that returned (or blocked in fx0a) without a panic
StepDone == ctl = "step" /\ ctl' \in {"update", "get_key"}

W == NextWord
Op == W \div 4096
X == (W \div 256) % 16
Y == (W \div 16) % 16
N == W % 16
K == W % 256
Addr == W % 4096

\* the fields of the word the last step executed
LastOp == instr \div 4096
LastX == (instr \div 256) % 16
LastY == (instr \div 16) % 16
LastN == instr % 16

\* the skip instruction this step executes is taken
SkipTaken ==
    \/ Op = 3 /\ v[X] = K
    \/ Op = 4 /\ v[X] # K
    \/ Op = 5 /\ N = 0 /\ v[X] = v[Y]
    \/ Op = 9 /\ N = 0 /\ v[X] # v[Y]
    \/ Op = 14 /\ K = 158 /\ ctl' = "update" /\ pressed'[v[X]]
    \/ Op = 14 /\ K = 161 /\ ctl' = "update" /\ ~pressed'[v[X]]

(***************************************************************************)
(* C1: the instruction word is mem[PC] * 256 + mem[PC + 1]; a step that is *)
(* not a jump (1nnn, Bnnn), a call, a return or a taken skip leaves        *)
(* PC = PC + 2, and 1nnn leaves PC = nnn exactly.                          *)
(***************************************************************************)
C1_FetchAndAdvance ==
    [][StepTaken =>
         /\ instr' = MemAt(mem, pc) * 256 + MemAt(mem, pc + 1)
         /\ old_pc' = pc
         /\ (Op \notin {1, 2, 11} /\ W # 238 /\ ~SkipTaken) => pc' = pc + 2
         /\ Op = 1 => pc' = Addr]_vars

\* the first instruction was a 1nnn whose target is not the next instruction
C1_Witness ==
    /\ ctl = "update" /\ LastOp = 1 /\ pc = instr % 4096
    /\ pc # old_pc + 2 /\ old_pc = ROM_START

(***************************************************************************)
(* C2: a return sets PC to the address pushed by the most recent call not  *)
(* yet returned from (that call's PC + 2) and removes exactly that entry;  *)
(* the program 2204 .... 00EE ends its return with PC = 0x202 and an empty *)
(* stack.                                                                  *)
(***************************************************************************)
C2_CallReturnLifo ==
    /\ [][StepTaken /\ Op = 2 /\ Len(stack) < 16 =>
            /\ ctl' = "update"
            /\ stack' = Append(stack, pc + 2)
            /\ pc' = Addr]_vars
    /\ [][StepTaken /\ W = 238 /\ Len(stack) > 0 =>
            /\ ctl' = "update"
            /\ pc' = stack[Len(stack)]
            /\ stack' = SubSeq(stack, 1, Len(stack) - 1)]_vars
    /\ []((rom = RomOf(ScenarioC) /\ ctl = "update" /\ instr = 238 /\ old_pc = 516)
            => (pc = 514 /\ stack = <<>>))

\* a return out of a nested call: one entry is left, and it is not the one
\* that was popped
C2_Witness ==
    /\ ctl = "update" /\ instr = 238
    /\ Len(stack) >= 1 /\ stack[1] # pc

(***************************************************************************)
(* C3: the stack never holds more than 16 entries; a call with fewer than  *)
(* 16 entries succeeds, the call with 16 entries panics "stack overflow"   *)
(* and pushes nothing, and nothing executes after a panic.                 *)
(***************************************************************************)
C3_StackBound ==
    /\ [](Len(stack) <= 16)
    /\ [][StepTaken /\ Op = 2 =>
            IF Len(stack) < 16
            THEN ctl' = "update" /\ Len(stack') = Len(stack) + 1
            ELSE /\ ctl' = "panicked"
                 /\ panic' = [kind |-> "stack overflow", args |-> <<>>]
                 /\ stack' = stack]_vars
    /\ [][ctl = "panicked" => UNCHANGED vars]_vars

\* the 17th call of 17 calls in a row has panicked
C3_Witness ==
    /\ ctl = "panicked" /\ panic.kind = "stack overflow"
    /\ Len(stack) = 16 /\ LastOp = 2 /\ rom = RomOf(ScenarioD)

(***************************************************************************)
(* C4: 00EE with an empty stack panics; PC is not set to a popped value    *)
(* (it stays at the address after the 00EE) and nothing executes after.    *)
(***************************************************************************)
C4_StackUnderflow ==
    /\ [][StepTaken /\ W = 238 /\ Len(stack) = 0 =>
            /\ ctl' = "panicked"
            /\ panic'.kind = "unwrap on None"
            /\ pc' = pc + 2
            /\ stack' = <<>>]_vars
    /\ [][ctl = "panicked" /\ panic.kind = "unwrap on None" => UNCHANGED vars]_vars

\* a return was executed on an empty stack
C4_Witness ==
    ctl = "panicked" /\ panic.kind = "unwrap on None" /\ instr = 238 /\ stack = <<>>

(***************************************************************************)
(* C5: a word that matches no row of the dispatch table (0nnn other than   *)
(* 00E0 and 00EE, 8xyn with n in {8,9,A,B,C,D,F}, Exkk with kk not in      *)
(* {9E,A1}, Fxkk with kk not in {07,0A,15,18,1E,29,33,55,65}) is fatal:    *)
(* the step panics, the panic carries the word and the PC the word was     *)
(* fetched from (not the advanced PC), the instruction changes nothing     *)
(* but the PC, and nothing executes after it.                              *)
(***************************************************************************)
NoDispatchRow ==
    \/ Op = 0 /\ W \notin {224, 238}
    \/ Op = 8 /\ N \in {8, 9, 10, 11, 12, 13, 15}
    \/ Op = 14 /\ K \notin {158, 161}
    \/ Op = 15 /\ K \notin {7, 10, 21, 24, 30, 41, 51, 85, 101}

C5_UnmatchedWordFatal ==
    /\ [][StepTaken /\ NoDispatchRow =>
            /\ ctl' = "panicked"
            /\ panic' = [kind |-> "unimplemented", args |-> <<W, pc>>]
            /\ UNCHANGED <<i, stack, v, mem, screen, pressed, dt, st>>]_vars
    /\ [][ctl = "panicked" /\ panic.kind = "unimplemented" => UNCHANGED vars]_vars

\* an Fxkk word with no row was fetched after the first instruction and
\* has panicked with its word and its own address
C5_Witness ==
    /\ ctl = "panicked" /\ panic.kind = "unimplemented"
    /\ LastOp = 15 /\ old_pc > ROM_START
    /\ panic.args = <<instr, old_pc>> /\ pc = old_pc + 2

(***************************************************************************)
(* C6: 5xyn and 9xyn with n # 0 are fatal decode errors whose report, like *)
(* that of every other decode error, carries the raw instruction word and  *)
(* the PC the word was fetched from.                                       *)
(***************************************************************************)
C6_NonZeroNibbleReport ==
    [][StepTaken /\ Op \in {5, 9} /\ N # 0 =>
          /\ ctl' = "panicked"
          /\ panic' = [kind |-> "unimplemented", args |-> <<W, pc>>]]_vars

(***************************************************************************)
(* C7: no memory address >= 4096 is read or written.  The memory holds     *)
(* addresses below 4096 only; a fetch with PC or PC + 1 >= 4096 panics     *)
(* (in would_halt, the first fetch of the iteration, so that step never    *)
(* starts there); Fx33 with I + 2 >= 4096, Fx55 and Fx65 with              *)
(* I + x >= 4096 and Dxyn with I + n > 4096 panic, and what memory holds   *)
(* outside the addresses I .. 4095 is left as it was.                      *)
(***************************************************************************)
C7_MemoryBounds ==
    /\ [](\A a \in DOMAIN mem : a < LEN)
    /\ [](ctl = "step" => pc + 1 < LEN)
    /\ [][ctl = "loop" /\ pc + 1 >= LEN =>
            /\ ctl' = "panicked"
            /\ panic'.kind = "index out of bounds"
            /\ panic'.args[2] >= LEN]_vars
    /\ [][StepTaken /\ (\/ Op = 15 /\ K = 51 /\ i + 2 >= LEN
                        \/ Op = 15 /\ K \in {85, 101} /\ i + X >= LEN
                        \/ Op = 13 /\ i + N > LEN) =>
            /\ ctl' = "panicked"
            /\ \A a \in 0 .. LEN - 1 : a < i => MemAt(mem', a) = MemAt(mem, a)]_vars

\* Fx55 has panicked on the address 4096 after writing below it
C7_Witness ==
    /\ ctl = "panicked" /\ panic = [kind |-> "index out of bounds", args |-> <<LEN, LEN>>]
    /\ LastOp = 15 /\ instr % 256 = 85 /\ i < LEN /\ i + LastX >= LEN

(***************************************************************************)
(* C8: 8xy4 leaves V[0xF] = 1 if the sum of the two registers before the   *)
(* instruction is >= 256 and 0 otherwise, and V[x] = the sum mod 256 (for  *)
(* x = 0xF the flag, written last, is what V[0xF] holds); no other         *)
(* register changes.                                                       *)
(***************************************************************************)
C8_AddCarry ==
    [][StepTaken /\ Op = 8 /\ N = 4 =>
          /\ ctl' = "update"
          /\ v'[15] = (IF v[X] + v[Y] >= 256 THEN 1 ELSE 0)
          /\ X # 15 => v'[X] = (v[X] + v[Y]) % 256
          /\ \A r \in 0 .. 15 : r \notin {X, 15} => v'[r] = v[r]]_vars

\* an addition whose sum is exactly 256: result 0, carry 1
C8_Witness ==
    /\ ctl = "update" /\ LastOp = 8 /\ LastN = 4
    /\ LastX # 15 /\ LastX # LastY
    /\ v[LastX] = 0 /\ v[LastY] # 0 /\ v[15] = 1

(***************************************************************************)
(* C9: 8xy5 leaves V[x] = (V[x] - V[y]) mod 256 and V[0xF] = 1 iff         *)
(* V[x] >= V[y] before the instruction; 8xy7 leaves                        *)
(* V[x] = (V[y] - V[x]) mod 256 and V[0xF] = 1 iff V[y] >= V[x] before     *)
(* the instruction (for x = 0xF the flag is what V[0xF] holds); equal      *)
(* operands give 0 and flag 1.                                             *)
(***************************************************************************)
C9_SubNoBorrow ==
    /\ [][StepTaken /\ Op = 8 /\ N = 5 =>
            /\ ctl' = "update"
            /\ v'[15] = (IF v[X] >= v[Y] THEN 1 ELSE 0)
            /\ X # 15 => v'[X] = (v[X] - v[Y] + 256) % 256
            /\ \A r \in 0 .. 15 : r \notin {X, 15} => v'[r] = v[r]]_vars
    /\ [][StepTaken /\ Op = 8 /\ N = 7 =>
            /\ ctl' = "update"
            /\ v'[15] = (IF v[Y] >= v[X] THEN 1 ELSE 0)
            /\ X # 15 => v'[X] = (v[Y] - v[X] + 256) % 256
            /\ \A r \in 0 .. 15 : r \notin {X, 15} => v'[r] = v[r]]_vars
    /\ [][StepTaken /\ Op = 8 /\ N \in {5, 7} /\ v[X] = v[Y] /\ X # 15 =>
            v'[X] = 0 /\ v'[15] = 1]_vars

\* 8xy5 on two different registers that held the same non-zero value
C9_Witness ==
    /\ ctl = "update" /\ LastOp = 8 /\ LastN = 5
    /\ LastX # 15 /\ LastY # 15 /\ LastX # LastY
    /\ v[LastX] = 0 /\ v[LastY] # 0 /\ v[15] = 1

(***************************************************************************)
(* C10: both shifts take their operand from V[y]: 8xy6 leaves              *)
(* V[x] = V[y] div 2 and V[0xF] = V[y] mod 2, 8xyE leaves                  *)
(* V[x] = (V[y] * 2) mod 256 and V[0xF] = bit 7 of V[y], with V[y] as it   *)
(* was before the instruction (for x = 0xF the flag is what V[0xF]         *)
(* holds); V[y] itself is unchanged when x # y and y # 0xF.                *)
(***************************************************************************)
C10_ShiftsUseVy ==
    /\ [][StepTaken /\ Op = 8 /\ N = 6 =>
            /\ ctl' = "update"
            /\ v'[15] = v[Y] % 2
            /\ X # 15 => v'[X] = v[Y] \div 2]_vars
    /\ [][StepTaken /\ Op = 8 /\ N = 14 =>
            /\ ctl' = "update"
            /\ v'[15] = (v[Y] \div 128) % 2
            /\ X # 15 => v'[X] = (v[Y] * 2) % 256]_vars
    /\ [][StepTaken /\ Op = 8 /\ N \in {6, 14} /\ X # Y /\ Y # 15 =>
            v'[Y] = v[Y]]_vars

\* 6001 61FF 8016 : V0 is half of what V1 held, not of what V0 held, the bit
\* shifted out is 1, and V1 is still what was loaded
C10_Witness ==
    /\ rom = RomOf(<<24577, 25087, 32790>>)
    /\ ctl = "update" /\ instr = 32790
    /\ v[0] = 127 /\ v[1] = 255 /\ v[15] = 1

(***************************************************************************)
(* C11: after 8xy1 (OR), 8xy2 (AND) and 8xy3 (XOR) V[0xF] = 0 whatever it  *)
(* held before, and for x # 0xF V[x] holds the bitwise OR / AND / XOR of   *)
(* the V[x] and V[y] before the instruction; no other register changes.    *)
(* A byte is read as the set of the positions of its 1 bits.               *)
(***************************************************************************)
BitsOf(b) == {p \in 0 .. 7 : (b \div (2 ^ p)) % 2 = 1}

C11_LogicResetsFlag ==
    [][StepTaken /\ Op = 8 /\ N \in {1, 2, 3} =>
          /\ ctl' = "update"
          /\ v'[15] = 0
          /\ X # 15 =>
               BitsOf(v'[X]) =
                 CASE N = 1 -> BitsOf(v[X]) \cup BitsOf(v[Y])
                   [] N = 2 -> BitsOf(v[X]) \cap BitsOf(v[Y])
                   [] N = 3 -> (BitsOf(v[X]) \ BitsOf(v[Y])) \cup (BitsOf(v[Y]) \ BitsOf(v[X]))
          /\ \A r \in 0 .. 15 : r \notin {X, 15} => v'[r] = v[r]]_vars

\* 6001 6FFF 80F1 : V[0xF] held 0xFF before the OR and holds 0 after it
C11_Witness ==
    /\ rom = RomOf(<<24577, 28671, 33009>>)
    /\ ctl = "update" /\ instr = 33009
    /\ v[0] = 255 /\ v[15] = 0

(***************************************************************************)
(* C12: Dxyn wraps the origin only, to (V[x] mod 64, V[y] mod 32), and     *)
(* clips the pixels: the display changes exactly at the 1 bits of the n    *)
(* sprite bytes whose column origin.x + dx is <= 63 and whose row          *)
(* origin.y + dy is <= 31, so that nothing past the right or bottom edge   *)
(* comes back at column 0 or row 0.  A draw of FF 81 at V[x] = 60 and one  *)
(* at V[x] = 0xFC (-4) change the same five pixels.                        *)
(***************************************************************************)
\* the pixels the draw this step executes has to toggle
DrawnPixels ==
    LET ox == v[X] % 64
        oy == v[Y] % 32
    IN  {[x |-> ox + q[1], y |-> oy + q[2]] :
            q \in {r \in (0 .. 7) \X (0 .. N - 1) :
                     /\ (MemAt(mem, i + r[2]) \div (2 ^ (7 - r[1]))) % 2 = 1
                     /\ ox + r[1] <= 63
                     /\ oy + r[2] <= 31}}

C12_DrawWrapAndClip ==
    /\ [][StepTaken /\ Op = 13 /\ i + N <= LEN =>
            /\ ctl' = "update"
            /\ screen' = (screen \ DrawnPixels) \cup (DrawnPixels \ screen)]_vars
    /\ [](( /\ ctl = "update" /\ instr = Word(13, 0, 1, 2) /\ old_pc = 520
            /\ MemAt(mem, 528) = 255 /\ MemAt(mem, 529) = 129
            /\ v[0] \in {60, 252} /\ v[1] = 0)
          => screen = {[x |-> 60, y |-> 0], [x |-> 61, y |-> 0], [x |-> 62, y |-> 0],
                       [x |-> 63, y |-> 0], [x |-> 60, y |-> 1]})

\* the first draw with V0 = 0xFC has lit column 63 and nothing in column 0
C12_Witness ==
    /\ ctl = "update" /\ instr = Word(13, 0, 1, 2) /\ old_pc = 520
    /\ v[0] = 252 /\ v[1] = 0
    /\ [x |-> 63, y |-> 0] \in screen
    /\ \A p \in screen : p.x # 0

(***************************************************************************)
(* C13: after every Dxyn V[0xF] = 1 if the draw turned at least one pixel  *)
(* of the grid from set to unset and V[0xF] = 0 otherwise: the flag is     *)
(* written by every draw (a 1 left by an earlier draw does not survive a   *)
(* draw without a collision), it is 1 however many pixels collided, and    *)
(* the clipped pixels, which are not among the pixels drawn, do not count. *)
(***************************************************************************)
C13_CollisionFlag ==
    [][StepTaken /\ Op = 13 /\ i + N <= LEN =>
          /\ ctl' = "update"
          /\ v'[15] = (IF DrawnPixels \cap screen # {} THEN 1 ELSE 0)
          /\ \A r \in 0 .. 14 : v'[r] = v[r]]_vars

\* the third of three draws of FF .. at one origin: the second draw erased
\* the first and left V[0xF] = 1, the third has left V[0xF] = 0
C13_Witness ==
    /\ ctl = "update" /\ LastOp = 13 /\ old_pc = 524
    /\ v[0] = v[2] /\ MemAt(mem, 528) = 255
    /\ screen # {} /\ v[15] = 0

(***************************************************************************)
(* C14: drawing the same sprite bytes at the same origin twice in a row    *)
(* restores every pixel of the display to its value before the first of    *)
(* the two draws, whatever the display showed, and the second of the two   *)
(* reports a collision whenever the first turned at least one pixel on.    *)
(* In the programs 60aa 61bb 62cc A210 D01n D21n D21n the display before   *)
(* the pair D21n D21n is what D01n drew at (V0, V1).                       *)
(***************************************************************************)
\* the in-grid pixels of the n-byte sprite at addr drawn with origin
\* registers holding vx and vy
SpritePixels(vx, vy, addr, n) ==
    {[x |-> (vx % 64) + q[1], y |-> (vy % 32) + q[2]] :
        q \in {r \in (0 .. 7) \X (0 .. n - 1) :
                 /\ (MemAt(mem, addr + r[2]) \div (2 ^ (7 - r[1]))) % 2 = 1
                 /\ (vx % 64) + r[1] <= 63
                 /\ (vy % 32) + r[2] <= 31}}

\* what the display showed before the pair, and what the pair toggles
BeforePair == SpritePixels(v[0], v[1], 528, LastN)
PairPixels == SpritePixels(v[2], v[1], 528, LastN)

C14_DoubleDrawRestores ==
    /\ []((ctl = "update" /\ LastOp = 13 /\ old_pc = 520 /\ i = 528)
            => screen = BeforePair)
    /\ []((ctl = "update" /\ LastOp = 13 /\ old_pc = 522 /\ i = 528)
            => screen = (BeforePair \ PairPixels) \cup (PairPixels \ BeforePair))
    /\ []((ctl = "update" /\ LastOp = 13 /\ old_pc = 524 /\ i = 528)
            => /\ screen = BeforePair
               /\ (PairPixels \ BeforePair # {}) => v[15] = 1)
    /\ [][StepTaken /\ Op = 13 /\ i + N <= LEN =>
            (screen' \ DrawnPixels) \cup (DrawnPixels \ screen') = screen]_vars

\* the pair was drawn over a display that already showed some of its
\* pixels and not others, and the display is back to what it showed
C14_Witness ==
    /\ ctl = "update" /\ LastOp = 13 /\ old_pc = 524 /\ i = 528
    /\ BeforePair \cap PairPixels # {}
    /\ PairPixels \ BeforePair # {}
    /\ BeforePair \ PairPixels # {}
    /\ screen = BeforePair /\ v[15] = 1

(***************************************************************************)
(* C15: Dxyn with I + n > 4096 panics and leaves every display pixel and   *)
(* every register, V[0xF] included, as they were; Dxyn with I + n = 4096   *)
(* is accepted and draws the n bytes that end at address 4095.             *)
(***************************************************************************)
C15_DrawRangeCheck ==
    /\ [][StepTaken /\ Op = 13 /\ i + N > LEN =>
            /\ ctl' = "panicked"
            /\ screen' = screen
            /\ v' = v]_vars
    /\ [][StepTaken /\ Op = 13 /\ i + N = LEN =>
            /\ ctl' = "update"
            /\ screen' = (screen \ SpritePixels(v[X], v[Y], LEN - N, N))
                           \cup (SpritePixels(v[X], v[Y], LEN - N, N) \ screen)]_vars
    /\ []((ctl = "update" /\ instr = Word(13, 1, 1, 2) /\ i = LEN - 2
              /\ MemAt(mem, LEN - 1) = 255 /\ MemAt(mem, LEN - 2) = 0 /\ v[1] = 0)
            => screen = {[x |-> c, y |-> 1] : c \in 0 .. 7})

\* D112 with I = 0xFFF, where the byte FF is: the draw has panicked and
\* the display is still empty
C15_Witness ==
    /\ ctl = "panicked" /\ panic.kind = "assertion failed"
    /\ instr = Word(13, 1, 1, 2) /\ i = LEN - 1 /\ MemAt(mem, LEN - 1) = 255
    /\ screen = {} /\ v[15] = 0

(***************************************************************************)
(* C16: Fx0A does not complete while keys are pressed or held: an event    *)
(* that is not the release of one of the 16 keys (a press, a repeat, a     *)
(* key that is not mapped, another kind of event) leaves it blocked with   *)
(* V unchanged; it completes at the first release event of one of the 16   *)
(* keys that its blocking loop reads, and V[x] is that key's code.         *)
(***************************************************************************)
\* the event just read is the release of one of the 16 keys
ReleaseOfKey(ev) ==
    /\ ev.type = "Key" /\ ev.is_char /\ ev.kind = "Release"
    /\ keycode_to_chip8(ev.code) \in 0 .. 15

C17_OnlyNewlyPressedKey ==
    /\ [][ctl = "get_key" /\ ctl' = "update" => v'[LastX] \in fresh]_vars
    /\ [][(/\ ctl = "get_key"
           /\ ReleaseOfKey(key_event')
           /\ pressed[keycode_to_chip8(key_event'.code)]
           /\ keycode_to_chip8(key_event'.code) \notin fresh)
          => ctl' = "get_key"]_vars

(***************************************************************************)
(* C18: an update decrements the delay timer and the sound timer together, *)
(* once for every whole tick interval between the last accounted tick and  *)
(* the time update reads, each stopping at 0 (a timer at 0 stays 0 and     *)
(* never becomes 255); the time left over is less than one tick interval.  *)
(* Nothing but update changes a timer, except Fx15 and Fx18, which are the *)
(* only way a timer increases; Fx07 reads the delay timer.                 *)
(***************************************************************************)
TicksOf(n) == n * TIME_BETWEEN_TICKS_NS
Floor0(n) == IF n < 0 THEN 0 ELSE n

C18_TimersSaturate ==
    /\ [][ctl = "update" =>
            \E n \in 0 .. (MaxElapsedHalfTicks + MaxStepHalfTicks) :
                /\ dt' = Floor0(dt - n)
                /\ st' = Floor0(st - n)
                /\ elapsed' < TIME_BETWEEN_TICKS_NS
                /\ elapsed' + TicksOf(n) >= elapsed
                /\ elapsed' + TicksOf(n) - elapsed \in Durations]_vars
    /\ [][ctl # "update" /\ dt' # dt => StepTaken /\ Op = 15 /\ K = 21 /\ dt' = v[X]]_vars
    /\ [][ctl # "update" /\ st' # st => StepTaken /\ Op = 15 /\ K = 24 /\ st' = v[X]]_vars
    /\ [][StepTaken /\ Op = 15 /\ K = 21 => dt' = v[X] /\ st' = st]_vars
    /\ [][StepTaken /\ Op = 15 /\ K = 24 => st' = v[X] /\ dt' = dt]_vars
    /\ [][StepTaken /\ Op = 15 /\ K = 7 => v'[X] = dt /\ dt' = dt]_vars
    /\ [](dt \in 0 .. 255 /\ st \in 0 .. 255)

\* the update after the key wait of 6003 6102 F118 F015 F20A: the delay
\* timer, at least 2 before this update, is 0 and the sound timer, at most
\* 2, is 0 and not 255
C18_Witness ==
    /\ rom = RomOf(<<24579, 24834, 61720, 61461, 61962, 62215>>)
    /\ ctl = "loop" /\ instr = 61962
    /\ dt = 0 /\ st = 0

(***************************************************************************)
(* C19: right after construction from a program of L <= 3584 bytes the     *)
(* bytes 0x200 .. 0x200 + L - 1 are the program bytes in order, the bytes  *)
(* 0x000 .. 0x04F are the 16 digit sprites with digit d at d*5 .. d*5 + 4, *)
(* every other byte is 0, PC = 0x200, I = 0, the 16 registers are 0 and    *)
(* the stack is empty.  The program image is never changed afterwards.     *)
(***************************************************************************)
C19_Construction ==
    /\ Len(rom) <= 3584 =>
         /\ ctl = "loop"
         /\ pc = 512 /\ i = 0 /\ stack = <<>>
         /\ \A r \in 0 .. 15 : v[r] = 0
         \* no byte was written yet: the memory is the array built by Mem::new
         /\ DOMAIN mem = {}
         /\ LET bytes == MemNew(rom)
            IN  /\ \A d \in 0 .. 15 : \A j \in 0 .. 4 : bytes[d * 5 + j] = DIGITS[d + 1][j + 1]
                /\ \A a \in 512 .. 511 + Len(rom) : bytes[a] = rom[a - 511]
                /\ \A a \in 80 .. 511 : bytes[a] = 0
                /\ \A a \in 512 + Len(rom) .. 4095 : bytes[a] = 0
    /\ [][rom' = rom]_vars

\* the interpreter built from the program of 3584 bytes, before it ran
C19_Witness ==
    /\ ctl = "loop" /\ instr = 0 /\ pc = 512
    /\ Len(rom) = 3584
    /\ MemAt(mem, 512) = 18 /\ MemAt(mem, 4095) = 255 /\ MemAt(mem, 79) = 128

(***************************************************************************)
(* C20: constructing the interpreter from a program longer than            *)
(* 4096 - 0x200 = 3584 bytes is an error reported to the caller, from      *)
(* which the caller can recover, before any instruction executes: no       *)
(* instruction runs and the failure is not a panic; every program of       *)
(* 0 .. 3584 bytes is accepted.                                            *)
(***************************************************************************)
C20_OversizeReported ==
    /\ [](Len(rom) > 3584 =>
            /\ ctl \notin {"loop", "step", "update", "get_key", "halted"}
            /\ instr = 0
            /\ panic = NoPanic)
    /\ (Len(rom) <= 3584 => ctl = "loop" /\ panic = NoPanic)

(***************************************************************************)
(* C21: the program A200 D005, run from the initial state for its two      *)
(* instructions, draws the built-in '0' glyph (rows F0 90 90 90 F0) with   *)
(* its top-left at (0, 0), reports no collision and leaves V[0xF] = 0.     *)
(* A200 points I at 0x200, where the program itself is loaded: what is     *)
(* drawn are the rows A2 00 D0 05 00.  The glyph is drawn by A000 D005,    *)
(* whose I is the address of the '0' sprite.                               *)
(***************************************************************************)
\* the pixels of the sprite rows drawn with the top-left at (0, 0)
RowsPixels(rows) ==
    {[x |-> q[1], y |-> q[2]] :
        q \in {r \in (0 .. 7) \X (0 .. Len(rows) - 1) :
                 (rows[r[2] + 1] \div (2 ^ (7 - r[1]))) % 2 = 1}}

\* the two instructions of the program have run
AfterScenario(words) ==
    /\ rom = RomOf(words) /\ ctl = "update" /\ instr = 53253 /\ pc = 516

\* the claim as stated
C21_ScenarioBDrawsZero ==
    AfterScenario(ScenarioB) =>
        /\ screen = RowsPixels(<<240, 144, 144, 144, 240>>)
        /\ v[15] = 0

\* the claim as amended
C21_ScenarioBDrawsProgramBytes ==
    /\ AfterScenario(ScenarioB) =>
          /\ i = 512
          /\ screen = RowsPixels(<<162, 0, 208, 5, 0>>)
          /\ v[15] = 0 /\ v[0] = 0 /\ v[1] = 0
    /\ AfterScenario(ScenarioB0) =>
          /\ i = 0
          /\ screen = RowsPixels(<<240, 144, 144, 144, 240>>)
          /\ v[15] = 0 /\ v[0] = 0 /\ v[1] = 0

\* A200 D005 has drawn: the top-left pixel of A2 is lit, the second is not
C21_Witness ==
    /\ AfterScenario(ScenarioB)
    /\ [x |-> 0, y |-> 0] \in screen
    /\ [x |-> 1, y |-> 0] \notin screen
    /\ [x |-> 7, y |-> 3] \in screen

(***************************************************************************)
(* C22: the program 600A 610B 8014, run from the initial state for its     *)
(* three instructions, yields V0 = 0x15, V1 = 0x0B, V[0xF] = 0 and         *)
(* PC = 0x206, every other register still 0.                               *)
(***************************************************************************)
C22_ScenarioAAdds ==
    (rom = RomOf(ScenarioA) /\ ctl = "update" /\ instr = 32788 /\ old_pc = 516) =>
        /\ v = [r \in 0 .. 15 |-> IF r = 0 THEN 21 ELSE IF r = 1 THEN 11 ELSE 0]
        /\ pc = 518
        /\ i = 0 /\ stack = <<>>

\* the third instruction of the program has run
C22_Witness ==
    /\ rom = RomOf(ScenarioA) /\ ctl = "update" /\ instr = 32788 /\ old_pc = 516
    /\ v[0] = 21 /\ v[1] = 11 /\ pc = 518

(***************************************************************************)
(* C23: in the loop of run the update hook is called exactly once after    *)
(* every executed instruction and before the next instruction is fetched;  *)
(* it is never called twice without an instruction in between and never    *)
(* before the first instruction.  In terms of the position of run: update  *)
(* is entered only from a step that returned (directly or out of the       *)
(* blocking read of fx0a), a step that returned goes nowhere else, update  *)
(* goes back to the top of the loop, and the top of the loop goes to the   *)
(* next fetch, or ends the run, never to update.                           *)
(***************************************************************************)
\* this transition is the call of update
UpdateCalled == ctl = "update" /\ ctl' # "update"

C23_UpdateOncePerInstruction ==
    /\ ctl # "update"
    /\ [][ctl' = "update" /\ ctl # "update" => ctl \in {"step", "get_key"}]_vars
    /\ [][ctl = "step" /\ ctl' # "step" => ctl' \in {"update", "get_key", "panicked"}]_vars
    /\ [][ctl = "get_key" => ctl' \in {"update", "get_key", "panicked"}]_vars
    /\ [][UpdateCalled => ctl' = "loop" /\ pc' = pc /\ instr' = instr /\ v' = v]_vars
    /\ [][ctl = "loop" /\ ctl' # "loop" => ctl' \in {"step", "halted", "panicked"}]_vars
    /\ [][ctl' = "step" /\ ctl # "step" => ctl = "loop"]_vars
    /\ [][ctl' = "loop" /\ ctl # "loop" => UpdateCalled]_vars

\* the update after the second instruction has run and the third
\* instruction is about to be fetched
C23_Witness ==
    /\ ctl = "step" /\ old_pc = 514 /\ pc = 516 /\ instr = 24843
    /\ rom = RomOf(ScenarioA)

(***************************************************************************)
(* C24: the loop of run ends normally exactly when the word at the current *)
(* PC is 1nnn with nnn equal to that PC.  The check comes before each      *)
(* fetch; the self-jump is not executed and update is not called for it    *)
(* (nothing but the position of run changes); nothing else ends the loop   *)
(* but a fatal error, and once ended the run takes no further step.        *)
(***************************************************************************)
\* the word at PC is a jump to PC
SelfJumpAtPc ==
    /\ pc + 1 < LEN
    /\ MemAt(mem, pc) * 256 + MemAt(mem, pc + 1) = 4096 + pc

C24_HaltOnSelfJump ==
    /\ [][ctl = "loop" /\ ctl' # "loop" => (ctl' = "halted" <=> SelfJumpAtPc)]_vars
    /\ [][ctl' = "halted" =>
            /\ ctl = "loop"
            /\ UNCHANGED <<pc, i, stack, v, rom, mem, screen, pressed, dt, st,
                           elapsed, instr, old_pc, panic>>]_vars
    /\ [][ctl' = "step" => ctl = "loop" /\ ~SelfJumpAtPc]_vars
    /\ [][ctl \notin {"halted", "panicked"}]_vars

\* a run that ended at the self-jump 120E after it drew three sprites
C24_Witness ==
    /\ ctl = "halted" /\ pc = 526 /\ old_pc = 524 /\ instr \div 4096 = 13
    /\ MemAt(mem, 526) = 18 /\ MemAt(mem, 527) = 14
    /\ panic = NoPanic

(***************************************************************************)
(* C25: the call stack is changed only by 2nnn, which pushes one entry,    *)
(* and by 00EE, which pops one: every other instruction (jumps, skips,     *)
(* draws, the words that do not decode and panic) and everything that is   *)
(* not an instruction leave its contents and its depth unchanged.          *)
(***************************************************************************)
C25_StackOnlyCallReturn ==
    /\ [][stack' # stack =>
            /\ StepTaken
            /\ \/ Op = 2 /\ stack' = Append(stack, pc + 2)
               \/ W = 238 /\ stack # <<>> /\ stack' = SubSeq(stack, 1, Len(stack) - 1)]_vars
    /\ [][StepTaken /\ Op # 2 /\ W # 238 => stack' = stack]_vars

\* the jump 1206 has run inside a subroutine and the return address is
\* still the one entry of the stack
C25_Witness ==
    /\ ctl = "update" /\ instr = 4614 /\ old_pc = 516 /\ pc = 518
    /\ stack = <<514>>

(***************************************************************************)
(* C26: Fx55 writes V[0] .. V[x] to the addresses I .. I + x, I being its  *)
(* value before the instruction, and changes no other memory byte and no   *)
(* V register; Fx65 loads V[0] .. V[x] from the addresses I .. I + x and   *)
(* changes no memory byte and no register with an index above x.           *)
(***************************************************************************)
C26_StoreLoadRegisters ==
    /\ [][StepDone /\ Op = 15 /\ K = 85 =>
            /\ \A a \in 0 .. LEN - 1 :
                  MemAt(mem', a) = IF i <= a /\ a <= i + X THEN v[a - i] ELSE MemAt(mem, a)
            /\ v' = v]_vars
    /\ [][StepDone /\ Op = 15 /\ K = 101 =>
            /\ \A r \in 0 .. 15 :
                  v'[r] = IF r <= X THEN MemAt(mem, i + r) ELSE v[r]
            /\ \A a \in 0 .. LEN - 1 : MemAt(mem', a) = MemAt(mem, a)]_vars

\* F165 has loaded V0 and V1 from what FF55 stored, and V[0xF] is as it was
C26_Witness ==
    /\ ctl = "update" /\ instr = Word(15, 1, 6, 5) /\ old_pc = 528
    /\ v[0] = 17 /\ v[1] = 34 /\ v[15] = 51
    /\ MemAt(mem, 768) = 17 /\ MemAt(mem, 769) = 34 /\ MemAt(mem, 783) = 51
    /\ MemAt(mem, 784) = 0

(***************************************************************************)
(* C27: Fx33 stores at memory[I], memory[I + 1], memory[I + 2] the         *)
(* hundreds, tens and ones digits of V[x]: each stored byte is in 0 .. 9   *)
(* and 100 * memory[I] + 10 * memory[I + 1] + memory[I + 2] = V[x], for    *)
(* every V[x] in 0 .. 255; I, the registers and all other memory bytes are *)
(* unchanged.                                                              *)
(***************************************************************************)
C27_BcdDigits ==
    [][StepDone /\ Op = 15 /\ K = 51 =>
         /\ \A a \in {i, i + 1, i + 2} : MemAt(mem', a) \in 0 .. 9
         /\ 100 * MemAt(mem', i) + 10 * MemAt(mem', i + 1) + MemAt(mem', i + 2) = v[X]
         /\ \A a \in (0 .. LEN - 1) \ {i, i + 1, i + 2} : MemAt(mem', a) = MemAt(mem, a)
         /\ i' = i /\ v' = v]_vars

\* F033 with V0 = 0xFE has stored 2, 5, 4 at 0x300
C27_Witness ==
    /\ ctl = "update" /\ instr = 61491 /\ old_pc = 516
    /\ v[0] = 254 /\ i = 768
    /\ MemAt(mem, 768) = 2 /\ MemAt(mem, 769) = 5 /\ MemAt(mem, 770) = 4

(***************************************************************************)
(* C28: Fx1E sets I to I + V[x] as a 16-bit value and modifies no V        *)
(* register: V[0xF] keeps its value also when the sum exceeds 0xFFF, and   *)
(* the instruction raises no error for an I above 0xFFF.                   *)
(***************************************************************************)
C28_AddToIndex ==
    [][StepTaken /\ Op = 15 /\ K = 30 =>
         /\ ctl' = "update"
         /\ i' = (i + v[X]) % U16MOD
         /\ v' = v]_vars

(***************************************************************************)
(* C29: each conditional skip (3xkk, 4xkk, 5xy0, 9xy0, Ex9E, ExA1) leaves  *)
(* PC = fetch PC + 4 when its condition holds and fetch PC + 2 when it     *)
(* does not, and changes no register, I, memory or stack.  3xkk and 4xkk,  *)
(* 5xy0 and 9xy0, Ex9E and ExA1 are exact complements: the conditions are  *)
(* V[x] = kk and its negation, V[x] = V[y] and its negation, and "key V[x] *)
(* is pressed" and its negation, both read from the same key table, the    *)
(* one that is_key_pressed leaves after it consumed the pending events.    *)
(* The key skips are instructions that completed: V[x] names one of the    *)
(* 16 keys.                                                                *)
(***************************************************************************)
\* the word this step executes is one of the six skips
IsSkipWord ==
    \/ Op \in {3, 4}
    \/ Op \in {5, 9} /\ N = 0
    \/ Op = 14 /\ K \in {158, 161}

\* PC after a skip whose condition is cond
SkipsIff(cond) == pc' = IF cond THEN pc + 4 ELSE pc + 2

C30_DrawWaitsForTick ==
    /\ [][StepDone /\ Op = 13 =>
            /\ elapsed' >= TIME_BETWEEN_TICKS_NS
            /\ dt' = dt /\ st' = st]_vars
    /\ [](ctl = "update" /\ LastOp = 13 => elapsed >= TIME_BETWEEN_TICKS_NS)
    /\ [][UpdateCalled /\ LastOp = 13 =>
            /\ dt > 0 => dt' < dt
            /\ st > 0 => st' < st
            /\ dt = 0 => dt' = 0
            /\ st = 0 => st' = 0
            /\ elapsed' < TIME_BETWEEN_TICKS_NS]_vars

\* the update after D001 is done: the draw came right after an update that
\* left less than a tick on the clock, and both timers are lower than the
\* values that the program gave them and that the draw found
C30_Witness ==
    /\ ctl = "loop" /\ instr = 53249 /\ old_pc = 520
    /\ v[0] = 3 /\ v[1] = 2
    /\ dt = 2 /\ st = 1

(***************************************************************************)
(* C31: after Fx55 or Fx65 completes, I equals its value before the        *)
(* instruction plus x + 1: it is advanced past the block that was          *)
(* transferred, not left unchanged.                                        *)
(***************************************************************************)
C31_IndexAdvanced ==
    [][StepDone /\ Op = 15 /\ K \in {85, 101} => i' = i + X + 1 /\ i' # i]_vars

\* FF55 has stored 16 registers at 0x300 and I is 0x310
C31_Witness ==
    /\ ctl = "update" /\ instr = Word(15, 15, 5, 5) /\ old_pc = 520
    /\ i = 784 /\ MemAt(mem, 783) = 51

(***************************************************************************)
(* C32: in every 8xyn that writes a flag (n in 1, 2, 3, 4, 5, 6, 7, E) the *)
(* result and the flag are both computed from the register values before   *)
(* the instruction, and the flag is written last: for x = 0xF the final    *)
(* V[0xF] is the flag and not the result, and for y = 0xF or x = y the     *)
(* operands are the values before the instruction.  No other register      *)
(* changes.                                                                *)
(***************************************************************************)
\* the byte whose bits are f[bit of a, bit of b]
ByteOfBits(f, a, b) ==
    CHOOSE r \in U8 : \A p \in 0 .. 7 :
        (r \div (2 ^ p)) % 2 = f[(a \div (2 ^ p)) % 2][(b \div (2 ^ p)) % 2]

\* result and flag of 8xyn from the operands a = V[x], b = V[y]
Result8(n, a, b) ==
    CASE n = 1 -> ByteOfBits([p \in {0, 1} |-> [q \in {0, 1} |-> IF p + q > 0 THEN 1 ELSE 0]], a, b)
      [] n = 2 -> ByteOfBits([p \in {0, 1} |-> [q \in {0, 1} |-> p * q]], a, b)
      [] n = 3 -> ByteOfBits([p \in {0, 1} |-> [q \in {0, 1} |-> (p + q) % 2]], a, b)
      [] n = 4 -> (a + b) % 256
      [] n = 5 -> (a - b) % 256
      [] n = 6 -> b \div 2
      [] n = 7 -> (b - a) % 256
      [] n = 14 -> (2 * b) % 256
Flag8(n, a, b) ==
    CASE n \in {1, 2, 3} -> 0
      [] n = 4 -> IF a + b > 255 THEN 1 ELSE 0
      [] n = 5 -> IF a >= b THEN 1 ELSE 0
      [] n = 6 -> b % 2
      [] n = 7 -> IF b >= a THEN 1 ELSE 0
      [] n = 14 -> b \div 128

C32_FlagWrittenLast ==
    [][StepTaken /\ Op = 8 /\ N \in {1, 2, 3, 4, 5, 6, 7, 14} =>
         /\ ctl' = "update"
         /\ v' = [r \in 0 .. 15 |->
                    IF r = 15 THEN Flag8(N, v[X], v[Y])
                    ELSE IF r = X THEN Result8(N, v[X], v[Y])
                    ELSE v[r]]]_vars

\* 6FFF 6101 8F14 : 0xFF + 1 into V[0xF] leaves the carry 1, not the sum 0
C32_Witness ==
    /\ rom = RomOf(<<28671, 24833, Word(8, 15, 1, 4)>>)
    /\ ctl = "update" /\ instr = Word(8, 15, 1, 4) /\ old_pc = 516
    /\ v[15] = 1 /\ v[1] = 1

(***************************************************************************)
(* C33: for every value of V[x] and V[y] in 0 .. 255 and every n in        *)
(* 0 .. 15 a draw never faults inside the display: the wrapped origin      *)
(* satisfies 0 <= x < 64 and 0 <= y < 32, origin + (dx, dy) never          *)
(* overflows a signed 8-bit value, and every pixel passed to flip is       *)
(* inside the 64 x 32 grid, so that the assertion of flip always holds.    *)
(* A draw whose sprite lies inside memory therefore completes, and the     *)
(* display never holds a pixel outside the grid.                           *)
(***************************************************************************)
\* the origin of the draw this step executes
DrawOrigin == PointWrap([x |-> AsI8(v[X]), y |-> AsI8(v[Y])])

C33_DrawNeverFaults ==
    /\ [][StepTaken /\ Op = 13 /\ i + N <= LEN =>
            /\ in_bounds(DrawOrigin)
            /\ \A dx \in 0 .. 7 : \A dy \in 0 .. N - 1 :
                  PointAddFits(DrawOrigin, [x |-> dx, y |-> dy])
            /\ ctl' = "update"
            /\ \A p \in screen' : in_bounds(p)]_vars
    /\ [][StepTaken /\ Op = 13 =>
            /\ panic'.kind = AssertFailed("").kind => panic' # AssertFailed("p.in_bounds()")
            /\ panic'.kind = AddOverflow.kind => i + N >= U16MOD]_vars
    /\ [](\A p \in screen : in_bounds(p))

\* D00F with V0 = 0xFF: the origin is (63, 31), and of the 15 rows only the
\* first pixel of the first row is inside the grid
C33_Witness ==
    /\ ctl = "update" /\ instr = 53263 /\ old_pc = 514
    /\ v[0] = 255 /\ v[15] = 0
    /\ screen = {[x |-> 63, y |-> 31]}

====
